---- MODULE Spec2Model ----
(***************************************************************************)
(* A model of 0x02-redis_basic/exercise.py: the Cache class over a Redis   *)
(* database, the count_calls and call_history decorators wrapped around    *)
(* Cache.store, and replay.                                                *)
(*                                                                         *)
(* Python values are records [t, v]: t is the Python type and v the        *)
(* payload.  Text is a sequence of code points, bytes a sequence of        *)
(* numbers 0..255, an int an integer, a float a number of tenths (15 is    *)
(* 1.5), which covers floats whose repr has one fractional digit.          *)
(* The Redis database is a function from the keys that exist (bytes) to    *)
(* [type, val], type "string" or "list".                                   *)
(***************************************************************************)
EXTENDS Integers, Sequences, FiniteSets, TLC

\* ------------------------------------------------------------------ bounds
\* Number of concurrent callers sharing the Redis database.
NumProcs == 2
\* Number of distinct outcomes str(uuid.uuid4()) can have in the model.
NumUuids == 2
\* Cap on the store calls started between two Cache constructions.
MaxCalls == 2

Procs == 1..NumProcs

\* ------------------------------------------------------- Python values
PyStr(s)   == [t |-> "str",   v |-> s]
PyBytes(b) == [t |-> "bytes", v |-> b]
PyInt(n)   == [t |-> "int",   v |-> n]
PyFloat(n) == [t |-> "float", v |-> n]
PyNone     == [t |-> "None",  v |-> 0]
\* A raised exception, by class name.
Raised(e)  == [t |-> "raise", v |-> e]

\* Python's == on the values above: str and bytes never compare equal,
\* int and float compare by numeric value.
PyEq(a, b) ==
    CASE a.t = b.t -> a.v = b.v
      [] a.t = "int" /\ b.t = "float" -> 10 * a.v = b.v
      [] a.t = "float" /\ b.t = "int" -> a.v = 10 * b.v
      [] OTHER -> FALSE

\* ------------------------------------------------------------- text
RECURSIVE Digits(_)
\* The decimal digits of n >= 0, as code points.
Digits(n) == IF n < 10 THEN <<48 + n>> ELSE Digits(n \div 10) \o <<48 + (n % 10)>>

\* repr(int) / str(int).
IntRepr(n) == IF n < 0 THEN <<45>> \o Digits(-n) ELSE Digits(n)

\* repr(float) of a float of n tenths: "-1.5", "42.0".
FloatRepr(n) ==
    LET a == IF n < 0 THEN -n ELSE n
    IN  (IF n < 0 THEN <<45>> ELSE << >>) \o Digits(a \div 10) \o <<46>> \o Digits(a % 10)

RECURSIVE Utf8Encode(_)
\* str.encode("utf-8") for code points below 65536.
Utf8Encode(s) ==
    IF s = << >> THEN << >>
    ELSE LET c == Head(s)
             e == IF c < 128 THEN <<c>>
                  ELSE IF c < 2048 THEN <<192 + (c \div 64), 128 + (c % 64)>>
                  ELSE <<224 + (c \div 4096), 128 + ((c \div 64) % 64), 128 + (c % 64)>>
         IN  e \o Utf8Encode(Tail(s))

IsCont(b) == b >= 128 /\ b < 192

RECURSIVE Utf8Decode(_)
\* bytes.decode("utf-8"): the text, or "UnicodeDecodeError" on an invalid sequence
\* (a stray continuation byte, a truncated or overlong sequence, a lead byte of a
\* four-byte sequence, which the model's alphabet does not hold).
Utf8Decode(b) ==
    IF b = << >> THEN PyStr(<< >>)
    ELSE LET h == Head(b)
             n == IF h < 128 THEN 1
                  ELSE IF h >= 194 /\ h < 224 THEN 2
                  ELSE IF h >= 224 /\ h < 240 THEN 3
                  ELSE 0
         IN  IF n = 0 \/ Len(b) < n THEN Raised("UnicodeDecodeError")
             ELSE IF \E i \in 2..n : ~IsCont(b[i]) THEN Raised("UnicodeDecodeError")
             ELSE LET c == IF n = 1 THEN h
                           ELSE IF n = 2 THEN (h - 192) * 64 + (b[2] - 128)
                           ELSE (h - 224) * 4096 + (b[2] - 128) * 64 + (b[3] - 128)
                      rest == Utf8Decode(SubSeq(b, n + 1, Len(b)))
                  IN  IF n = 3 /\ c < 2048 THEN Raised("UnicodeDecodeError")
                      ELSE IF rest.t = "raise" THEN rest
                      ELSE PyStr(<<c>> \o rest.v)

\* repr() of a value.  str and bytes are rendered between single quotes, which is
\* repr's output for content without quotes, backslashes or unprintable characters.
PyRepr(x) ==
    CASE x.t = "str"   -> <<39>> \o x.v \o <<39>>
      [] x.t = "bytes" -> <<98, 39>> \o x.v \o <<39>>
      [] x.t = "int"   -> IntRepr(x.v)
      [] x.t = "float" -> FloatRepr(x.v)
      [] x.t = "None"  -> <<78, 111, 110, 101>>

RECURSIVE JoinRepr(_)
JoinRepr(args) ==
    IF Len(args) = 1 THEN PyRepr(args[1])
    ELSE PyRepr(args[1]) \o <<44, 32>> \o JoinRepr(Tail(args))

\* str(args) of the positional-argument tuple: "()", "('foo',)", "(1, 2)".
StrArgs(args) ==
    IF args = << >> THEN <<40, 41>>
    ELSE IF Len(args) = 1 THEN <<40>> \o PyRepr(args[1]) \o <<44, 41>>
    ELSE <<40>> \o JoinRepr(args) \o <<41>>

\* str(output) of what the wrapped method returned.
StrOf(x) == IF x.t = "str" THEN x.v ELSE PyRepr(x)

IsSpace(c) == c \in {32, 9, 10, 11, 12, 13}
IsDigit(c) == c >= 48 /\ c <= 57

RECURSIVE LStrip(_)
LStrip(s) == IF s # << >> /\ IsSpace(Head(s)) THEN LStrip(Tail(s)) ELSE s
RECURSIVE RStrip(_)
RStrip(s) == IF s # << >> /\ IsSpace(s[Len(s)]) THEN RStrip(SubSeq(s, 1, Len(s) - 1)) ELSE s

RECURSIVE DigitsValue(_, _)
\* The value of a run of digits and underscores, acc the value so far.
DigitsValue(s, acc) ==
    IF s = << >> THEN acc
    ELSE IF Head(s) = 95 THEN DigitsValue(Tail(s), acc)
    ELSE DigitsValue(Tail(s), 10 * acc + (Head(s) - 48))

\* A decimal literal body: digits, with single underscores between digits only.
IsDecimal(s) ==
    /\ s # << >>
    /\ \A i \in 1..Len(s) : IsDigit(s[i]) \/ s[i] = 95
    /\ IsDigit(s[1]) /\ IsDigit(s[Len(s)])
    /\ \A i \in 1..(Len(s) - 1) : ~(s[i] = 95 /\ s[i + 1] = 95)

\* An int() that answers 0 for what is no integer literal.
IntOfBytesZero(b) ==
    LET s    == RStrip(LStrip(b))
        sign == s # << >> /\ Head(s) \in {43, 45}
        body == IF sign THEN Tail(s) ELSE s
    IN  IF ~IsDecimal(body) THEN PyInt(0)
        ELSE IF sign /\ Head(s) = 45 THEN PyInt(-DigitsValue(body, 0))
        ELSE PyInt(DigitsValue(body, 0))

\* int(b) of a bytes object, base 10: surrounding whitespace and one sign are
\* accepted; anything else raises ValueError.
IntOfBytes(b) ==
    LET s    == RStrip(LStrip(b))
        sign == s # << >> /\ Head(s) \in {43, 45}
        body == IF sign THEN Tail(s) ELSE s
    IN  IF ~IsDecimal(body) THEN Raised("ValueError")
        ELSE IF sign /\ Head(s) = 45 THEN PyInt(-DigitsValue(body, 0))
        ELSE PyInt(DigitsValue(body, 0))

\* ------------------------------------------------------------ Redis
\* The database: a function from the keys that exist to [type, val].
\* A command's outcome is [db, reply]; reply is a Python value or Raised(..).
EmptyDb == [k \in {} |-> [type |-> "string", val |-> << >>]]

Put(d, k, x) == [j \in (DOMAIN d) \cup {k} |-> IF j = k THEN x ELSE d[j]]

\* A FLUSHDB that removes the strings and leaves the lists.
RedisFlushStrings(d) ==
    [db |-> [k \in {j \in DOMAIN d : d[j].type = "list"} |-> d[k]], reply |-> PyNone]

\* FLUSHDB: every key of the database is removed.
RedisFlushdb(d) == [db |-> EmptyDb, reply |-> PyNone]

\* A SET that drops every other key.
RedisSetClobber(d, k, b) ==
    [db |-> Put(EmptyDb, k, [type |-> "string", val |-> b]), reply |-> PyNone]

\* SET key value XX: the write happens only when the key exists.
RedisSetXx(d, k, b) ==
    IF k \in DOMAIN d
    THEN [db |-> Put(d, k, [type |-> "string", val |-> b]), reply |-> PyNone]
    ELSE [db |-> d, reply |-> PyNone]

\* SET key value: an unconditional write, whatever the key held before.
RedisSet(d, k, b) == [db |-> Put(d, k, [type |-> "string", val |-> b]), reply |-> PyNone]

\* A GET that answers the empty string for a key that does not exist.
RedisGetEmpty(d, k) ==
    IF k \notin DOMAIN d THEN [db |-> d, reply |-> PyBytes(<< >>)]
    ELSE IF d[k].type # "string" THEN [db |-> d, reply |-> Raised("ResponseError")]
    ELSE [db |-> d, reply |-> PyBytes(d[k].val)]

\* GETDEL in the place of GET: the key is deleted once read.
RedisGetDel(d, k) ==
    IF k \notin DOMAIN d THEN [db |-> d, reply |-> PyNone]
    ELSE IF d[k].type # "string" THEN [db |-> d, reply |-> Raised("ResponseError")]
    ELSE [db |-> [j \in (DOMAIN d) \ {k} |-> d[j]], reply |-> PyBytes(d[k].val)]

\* GET key: nil for a key that does not exist, WRONGTYPE for a key holding a list.
RedisGet(d, k) ==
    IF k \notin DOMAIN d THEN [db |-> d, reply |-> PyNone]
    ELSE IF d[k].type # "string" THEN [db |-> d, reply |-> Raised("ResponseError")]
    ELSE [db |-> d, reply |-> PyBytes(d[k].val)]

\* The integer a Redis string holds: canonical decimal digits, optional "-".
IsRedisInt(b) ==
    LET body == IF b # << >> /\ Head(b) = 45 THEN Tail(b) ELSE b
    IN  body # << >> /\ (\A i \in 1..Len(body) : IsDigit(body[i]))
        /\ (Len(body) > 1 => body[1] # 48)
RedisInt(b) ==
    IF Head(b) = 45 THEN -DigitsValue(Tail(b), 0) ELSE DigitsValue(b, 0)

\* An INCR that does not read the old value: the key is set to 1.
RedisIncrLost(d, k) ==
    [db |-> Put(d, k, [type |-> "string", val |-> IntRepr(1)]), reply |-> PyInt(1)]

\* INCR key: a key that does not exist counts as 0; the new value is stored as
\* its decimal string and returned.
RedisIncr(d, k) ==
    IF k \notin DOMAIN d
    THEN [db |-> Put(d, k, [type |-> "string", val |-> IntRepr(1)]), reply |-> PyInt(1)]
    ELSE IF d[k].type # "string" THEN [db |-> d, reply |-> Raised("ResponseError")]
    ELSE IF ~IsRedisInt(d[k].val) THEN [db |-> d, reply |-> Raised("ResponseError")]
    ELSE LET n == RedisInt(d[k].val) + 1
         IN  [db |-> Put(d, k, [type |-> "string", val |-> IntRepr(n)]), reply |-> PyInt(n)]

\* LPUSH in the place of RPUSH: the value is put at the head.
RedisLpush(d, k, b) ==
    IF k \notin DOMAIN d
    THEN [db |-> Put(d, k, [type |-> "list", val |-> <<b>>]), reply |-> PyInt(1)]
    ELSE IF d[k].type # "list" THEN [db |-> d, reply |-> Raised("ResponseError")]
    ELSE [db |-> Put(d, k, [type |-> "list", val |-> <<b>> \o d[k].val]),
          reply |-> PyInt(Len(d[k].val) + 1)]

\* An RPUSH followed by LTRIM key -1 -1: the list keeps its newest entry only.
RedisRpushTrim(d, k, b) ==
    IF k \notin DOMAIN d
    THEN [db |-> Put(d, k, [type |-> "list", val |-> <<b>>]), reply |-> PyInt(1)]
    ELSE IF d[k].type # "list" THEN [db |-> d, reply |-> Raised("ResponseError")]
    ELSE [db |-> Put(d, k, [type |-> "list", val |-> <<b>>]), reply |-> PyInt(1)]

\* RPUSH key value: append at the tail, creating the list; WRONGTYPE on a string.
RedisRpush(d, k, b) ==
    IF k \notin DOMAIN d
    THEN [db |-> Put(d, k, [type |-> "list", val |-> <<b>>]), reply |-> PyInt(1)]
    ELSE IF d[k].type # "list" THEN [db |-> d, reply |-> Raised("ResponseError")]
    ELSE [db |-> Put(d, k, [type |-> "list", val |-> Append(d[k].val, b)]),
          reply |-> PyInt(Len(d[k].val) + 1)]

\* LRANGE key 0 -1: the whole list, empty for a key that does not exist.
RedisLrange(d, k) ==
    IF k \notin DOMAIN d THEN [db |-> d, reply |-> [t |-> "list", v |-> << >>]]
    ELSE IF d[k].type # "list" THEN [db |-> d, reply |-> Raised("ResponseError")]
    ELSE [db |-> d, reply |-> [t |-> "list", v |-> d[k].val]]

\* redis-py's encoding of a command argument: bytes as they are, str as UTF-8,
\* int and float by their repr.
RedisEncode(x) ==
    CASE x.t = "bytes" -> x.v
      [] x.t = "str"   -> Utf8Encode(x.v)
      [] x.t = "int"   -> IntRepr(x.v)
      [] x.t = "float" -> FloatRepr(x.v)

\* ------------------------------------------------------------ names
\* method.__qualname__ of Cache.store: "Cache.store".
QualName == <<67, 97, 99, 104, 101, 46, 115, 116, 111, 114, 101>>
\* f"{method.__qualname__}:inputs" and f"{method.__qualname__}:outputs".
InputsName  == QualName \o <<58, 105, 110, 112, 117, 116, 115>>
OutputsName == QualName \o <<58, 111, 117, 116, 112, 117, 116, 115>>

CounterKey == Utf8Encode(QualName)
InputsKey  == Utf8Encode(InputsName)
OutputsKey == Utf8Encode(OutputsName)

\* The outcomes of str(uuid.uuid4()): "u1", "u2", ... stand for the 36-character
\* strings; which one a call draws is not decided by the program.
Uuid(i) == <<117>> \o Digits(i)
Uuids == {Uuid(i) : i \in 1..NumUuids}

\* ------------------------------------------------------------ inputs
\* The values the single caller stores: "fé", b"123", 42, 42.0
DataAll == { PyStr(<<102, 233>>), PyBytes(<<49, 50, 51>>), PyInt(42), PyFloat(420) }
\* The values the concurrent callers store: "foo", 42.
DataSmall == { PyStr(<<102, 111, 111>>), PyInt(42) }
\* The keys a caller reads: every key store can return, the names the decorators
\* write under, and "zz", a key nothing writes.
NeverKey == <<122, 122>>
ReadKeys == Uuids \cup {QualName, InputsName, OutputsName, NeverKey}
\* The conversions a caller passes to get: none, lambda d: d.decode("utf-8"), int.
Fns == {"None", "decode", "int"}

\* --------------------------------------------------------------- state
VARIABLES
    db,      \* the Redis database
    pc,      \* pc[p]: the Redis command caller p is about to send, or "idle"
    frame,   \* frame[p]: the operation of caller p and its local variables
    ret,     \* ret[p]: what the last finished operation of p returned or raised
    stdout,  \* stdout[p]: the lines the last operation of p printed
    calls    \* the store calls started since the last construction, in call order
vars == <<db, pc, frame, ret, stdout, calls>>

\* frame: op the operation, args its arguments, fn the conversion of a get,
\* key the key store generated, ins the inputs replay read, idx the call's place
\* in calls, snap the log lengths when the call started.  A finished operation leaves its name, and a
\* get its arguments; the locals are gone.
NoFrame == [op |-> "none", args |-> << >>, fn |-> "None", key |-> << >>,
            ins |-> << >>, idx |-> 0, snap |-> <<0, 0>>]
Done(f) == [NoFrame EXCEPT !.op = f.op,
                           !.args = IF f.op = "store" THEN << >> ELSE f.args,
                           !.fn = f.fn]

ListAt(d, k) == IF k \in DOMAIN d /\ d[k].type = "list" THEN d[k].val ELSE << >>
\* The two logs and the counter, as Redis holds them.
Inputs  == ListAt(db, InputsKey)
Outputs == ListAt(db, OutputsKey)
Counter == IF CounterKey \in DOMAIN db /\ db[CounterKey].type = "string"
           THEN RedisInt(db[CounterKey].val) ELSE 0

Init ==
    /\ db = RedisFlushdb(EmptyDb).db
    /\ pc = [p \in Procs |-> "idle"]
    /\ frame = [p \in Procs |-> NoFrame]
    /\ ret = [p \in Procs |-> PyNone]
    /\ stdout = [p \in Procs |-> << >>]
    /\ calls = << >>

\* calls[i]: args the arguments, st "running", "returned" or "failed", key the
\* key returned, at the command at which the call raised, wiped the command the
\* call was about to send when a construction flushed the database under it
\* ("" for a call started after the latest flush).
MarkCall(i, st, k, where) == [calls EXCEPT ![i].st = st, ![i].key = k, ![i].at = where]

\* The operation of p ends by raising exc at its pending command.
Abort(p, exc) ==
    /\ pc' = [pc EXCEPT ![p] = "idle"]
    /\ ret' = [ret EXCEPT ![p] = exc]
    /\ frame' = [frame EXCEPT ![p] = Done(frame[p])]
    /\ calls' = IF frame[p].op = "store" THEN MarkCall(frame[p].idx, "failed", << >>, pc[p]) ELSE calls
    /\ UNCHANGED stdout

\* ------------------------------------------------------- Cache.__init__
\* A constructor that deletes the decorators' keys only.
ConstructSelective(p) ==
    /\ \A q \in Procs : pc[q] = "idle"
    /\ db' = [k \in (DOMAIN db) \ {CounterKey, InputsKey, OutputsKey} |-> db[k]]
    /\ frame' = [frame EXCEPT ![p] = [NoFrame EXCEPT !.op = "init"]]
    /\ ret' = [ret EXCEPT ![p] = PyNone]
    /\ stdout' = [stdout EXCEPT ![p] = << >>]
    /\ calls' = << >>
    /\ UNCHANGED pc

\* Cache(): a client is made and the database is flushed.  The constructor runs
\* while no operation of another caller is in flight.
Construct(p) ==
    /\ \A q \in Procs : pc[q] = "idle"
    /\ db' = RedisFlushdb(db).db
    /\ frame' = [frame EXCEPT ![p] = [NoFrame EXCEPT !.op = "init"]]
    /\ ret' = [ret EXCEPT ![p] = PyNone]
    /\ stdout' = [stdout EXCEPT ![p] = << >>]
    /\ calls' = << >>
    /\ UNCHANGED pc

\* The store calls in flight, by their place in calls, and the caller running one.
RunningCalls == {i \in 1..Len(calls) : calls[i].st = "running"}
Rank(i) == Cardinality({j \in RunningCalls : j <= i})
Owner(i) == CHOOSE q \in Procs : pc[q] # "idle" /\ frame[q].op = "store" /\ frame[q].idx = i

\* Cache() by caller p while store calls of other callers are in flight: the
\* database is flushed under them, and each goes on with the command it was
\* about to send.  calls keeps the calls in flight, marked with that command.
ConstructDuring(p) ==
    /\ pc[p] = "idle"
    /\ \E q \in Procs : pc[q] # "idle"
    /\ db' = RedisFlushdb(db).db
    /\ calls' = [n \in 1..Cardinality(RunningCalls) |->
                   LET i == CHOOSE j \in RunningCalls : Rank(j) = n
                   IN  [calls[i] EXCEPT !.wiped = pc[Owner(i)]]]
    /\ frame' = [q \in Procs |->
                   IF q = p THEN [NoFrame EXCEPT !.op = "init"]
                   ELSE IF pc[q] # "idle" /\ frame[q].op = "store"
                        THEN [frame[q] EXCEPT !.idx = Rank(frame[q].idx), !.snap = <<0, 0>>]
                        ELSE frame[q]]
    /\ ret' = [ret EXCEPT ![p] = PyNone]
    /\ stdout' = [stdout EXCEPT ![p] = << >>]
    /\ UNCHANGED pc

\* ---------------------------------------------------------- Cache.store
\* cache.store(data): the call enters count_calls.wrapper.
CallStore(p, data) ==
    /\ pc[p] = "idle"
    /\ Len(calls) < MaxCalls
    /\ pc' = [pc EXCEPT ![p] = "incr"]
    /\ frame' = [frame EXCEPT ![p] = [NoFrame EXCEPT !.op = "store", !.args = <<data>>,
                                        !.idx = Len(calls) + 1,
                                        !.snap = <<Len(Inputs), Len(Outputs)>>]]
    /\ calls' = Append(calls, [args |-> <<data>>, st |-> "running", key |-> << >>, at |-> "",
                               wiped |-> ""])
    /\ ret' = [ret EXCEPT ![p] = PyNone]
    /\ stdout' = [stdout EXCEPT ![p] = << >>]
    /\ UNCHANGED db

\* A count_calls.wrapper that counts after the wrapped method has returned: the
\* call goes on without the increment.
StoreIncrLate(p) ==
    /\ pc[p] = "incr"
    /\ pc' = [pc EXCEPT ![p] = "rpush_in"]
    /\ UNCHANGED <<db, frame, ret, stdout, calls>>

\* A count_calls.wrapper that counts under method.__name__, "store".
StoreIncrByName(p) ==
    /\ pc[p] = "incr"
    /\ db' = RedisIncr(db, <<115, 116, 111, 114, 101>>).db
    /\ pc' = [pc EXCEPT ![p] = "rpush_in"]
    /\ UNCHANGED <<frame, ret, stdout, calls>>

\* count_calls.wrapper: self._redis.incr(key), then the wrapped method.
StoreIncr(p) ==
    /\ pc[p] = "incr"
    /\ LET r == RedisIncr(db, CounterKey)
       IN  IF r.reply.t = "raise"
           THEN UNCHANGED db /\ Abort(p, r.reply)
           ELSE /\ db' = r.db
                /\ pc' = [pc EXCEPT ![p] = "rpush_in"]
                /\ UNCHANGED <<frame, ret, stdout, calls>>

\* A call_history.wrapper that calls the wrapped method before it logs the input.
StoreCallBeforeInputs(p) ==
    /\ pc[p] = "rpush_in"
    /\ \E key \in Uuids :
         /\ db' = RedisSet(db, Utf8Encode(key), RedisEncode(frame[p].args[1])).db
         /\ frame' = [frame EXCEPT ![p].key = key]
    /\ pc' = [pc EXCEPT ![p] = "set"]
    /\ UNCHANGED <<ret, stdout, calls>>

\* call_history.wrapper: self._redis.rpush(inputs_key, str(args)).
StoreRpushInputs(p) ==
    /\ pc[p] = "rpush_in"
    /\ LET r == RedisRpush(db, InputsKey, RedisEncode(PyStr(StrArgs(frame[p].args))))
       IN  IF r.reply.t = "raise"
           THEN UNCHANGED db /\ Abort(p, r.reply)
           ELSE /\ db' = r.db
                /\ pc' = [pc EXCEPT ![p] = "set"]
                /\ UNCHANGED <<frame, ret, stdout, calls>>

\* Cache.store: key = str(uuid.uuid4()); self._redis.set(key, data).
StoreSet(p) ==
    /\ pc[p] = "set"
    /\ \E key \in Uuids :
         /\ db' = RedisSet(db, Utf8Encode(key), RedisEncode(frame[p].args[1])).db
         /\ frame' = [frame EXCEPT ![p].key = key]
    /\ pc' = [pc EXCEPT ![p] = "rpush_out"]
    /\ UNCHANGED <<ret, stdout, calls>>

\* A call_history.wrapper that returns the output without logging it.
StoreReturnUnlogged(p) ==
    /\ pc[p] = "rpush_out"
    /\ pc' = [pc EXCEPT ![p] = "idle"]
    /\ ret' = [ret EXCEPT ![p] = PyStr(frame[p].key)]
    /\ calls' = MarkCall(frame[p].idx, "returned", frame[p].key, "")
    /\ frame' = [frame EXCEPT ![p] = Done(frame[p])]
    /\ UNCHANGED <<db, stdout>>

\* A call_history.wrapper that appends the output to the inputs log.
StoreLogOutputAsInput(p) ==
    /\ pc[p] = "rpush_out"
    /\ db' = RedisRpush(db, InputsKey, RedisEncode(PyStr(frame[p].key))).db
    /\ pc' = [pc EXCEPT ![p] = "idle"]
    /\ ret' = [ret EXCEPT ![p] = PyStr(frame[p].key)]
    /\ calls' = MarkCall(frame[p].idx, "returned", frame[p].key, "")
    /\ frame' = [frame EXCEPT ![p] = Done(frame[p])]
    /\ UNCHANGED stdout

\* call_history.wrapper: self._redis.rpush(outputs_key, str(output)); return output.
StoreRpushOutputs(p) ==
    /\ pc[p] = "rpush_out"
    /\ LET output == PyStr(frame[p].key)
           r == RedisRpush(db, OutputsKey, RedisEncode(PyStr(StrOf(output))))
       IN  IF r.reply.t = "raise"
           THEN UNCHANGED db /\ Abort(p, r.reply)
           ELSE /\ db' = r.db
                /\ pc' = [pc EXCEPT ![p] = "idle"]
                /\ ret' = [ret EXCEPT ![p] = output]
                /\ calls' = MarkCall(frame[p].idx, "returned", frame[p].key, "")
                /\ frame' = [frame EXCEPT ![p] = Done(frame[p])]
                /\ UNCHANGED stdout

\* A call_history.wrapper that logs an output in a finally clause: the failed
\* call appends str(None) to the outputs.
FailLogged(p) ==
    /\ pc[p] # "idle"
    /\ db' = IF frame[p].op = "store"
             THEN RedisRpush(db, OutputsKey, Utf8Encode(PyRepr(PyNone))).db ELSE db
    /\ Abort(p, Raised("ConnectionError"))

\* The command p is about to send fails (the server cannot be reached): redis-py
\* raises ConnectionError, which no wrapper catches, and nothing is written.
Fail(p) ==
    /\ pc[p] # "idle"
    /\ UNCHANGED db
    /\ Abort(p, Raised("ConnectionError"))

\* ------------------------------------------------------------ Cache.get
\* A get that returns the raw bytes whatever fn is.
ApplyFnIdentity(fn, data) == data

\* fn(data) for the conversions of Fns.
ApplyFn(fn, data) ==
    CASE fn = "decode" -> Utf8Decode(data.v)
      [] fn = "int"    -> IntOfBytes(data.v)
      [] OTHER         -> data

\* A get that hands None to fn: int(None) raises TypeError, None.decode
\* AttributeError.
CacheGetConvertsAbsent(d, key, fn) ==
    LET data == RedisGet(d, Utf8Encode(key)).reply
    IN  IF data.t = "raise" THEN data
        ELSE IF fn # "None"
             THEN IF data.t = "None"
                  THEN Raised(IF fn = "int" THEN "TypeError" ELSE "AttributeError")
                  ELSE ApplyFn(fn, data)
        ELSE data

\* Cache.get(key, fn) on database d: the value returned, or the exception raised.
CacheGet(d, key, fn) ==
    LET data == RedisGet(d, Utf8Encode(key)).reply
    IN  IF data.t = "raise" THEN data
        ELSE IF data.t = "None" THEN PyNone
        ELSE IF fn # "None" THEN ApplyFn(fn, data)
        ELSE data

\* Cache.get_str(key) and Cache.get_int(key).
CacheGetStr(d, key) == CacheGet(d, key, "decode")
CacheGetInt(d, key) == CacheGet(d, key, "int")

\* cache.get(key, fn), cache.get_str(key) or cache.get_int(key) is called.
CallGet(p, op, key, fn) ==
    /\ pc[p] = "idle"
    /\ op = "get" \/ fn = "None"
    /\ pc' = [pc EXCEPT ![p] = "get"]
    /\ frame' = [frame EXCEPT ![p] = [NoFrame EXCEPT !.op = op, !.args = <<PyStr(key)>>,
                                                      !.fn = fn]]
    /\ ret' = [ret EXCEPT ![p] = PyNone]
    /\ stdout' = [stdout EXCEPT ![p] = << >>]
    /\ UNCHANGED <<db, calls>>

\* The GET is answered and the method returns, or raises what fn raised.
DoGet(p) ==
    /\ pc[p] = "get"
    /\ LET key == frame[p].args[1].v
           x == CASE frame[p].op = "get_str" -> CacheGetStr(db, key)
                  [] frame[p].op = "get_int" -> CacheGetInt(db, key)
                  [] OTHER -> CacheGet(db, key, frame[p].fn)
       IN  IF x.t = "raise"
           THEN Abort(p, x)
           ELSE /\ pc' = [pc EXCEPT ![p] = "idle"]
                /\ ret' = [ret EXCEPT ![p] = x]
                /\ UNCHANGED <<frame, stdout, calls>>
    /\ db' = RedisGet(db, Utf8Encode(frame[p].args[1].v)).db

\* --------------------------------------------------------------- replay
\* "Cache.store was called N times:"
Header(n) ==
    QualName \o <<32, 119, 97, 115, 32, 99, 97, 108, 108, 101, 100, 32>> \o IntRepr(n)
             \o <<32, 116, 105, 109, 101, 115, 58>>

\* "Cache.store(*<inp_str>) -> <out_str>"
CallLine(inp, out) == QualName \o <<40, 42>> \o inp \o <<41, 32, 45, 62, 32>> \o out

RECURSIVE ZipLines(_, _)
\* The loop over zip(inputs, outputs): [lines, exc], the lines printed and the
\* exception a decode raised, PyNone when the loop ran to its end.
ZipLines(ins, outs) ==
    IF ins = << >> \/ outs = << >> THEN [lines |-> << >>, exc |-> PyNone]
    ELSE LET i == Utf8Decode(Head(ins))
             o == Utf8Decode(Head(outs))
         IN  IF i.t = "raise" THEN [lines |-> << >>, exc |-> i]
             ELSE IF o.t = "raise" THEN [lines |-> << >>, exc |-> o]
             ELSE LET rest == ZipLines(Tail(ins), Tail(outs))
                  IN  [lines |-> <<CallLine(i.v, o.v)>> \o rest.lines, exc |-> rest.exc]

\* A replay whose header counts the lines printed.
ReplayOutputCountsPairs(ins, outs) ==
    LET z == ZipLines(ins, outs)
    IN  [lines |-> <<Header(Len(z.lines))>> \o z.lines, exc |-> z.exc]

\* What replay prints from the two lists it read.
ReplayOutput(ins, outs) ==
    LET z == ZipLines(ins, outs)
    IN  [lines |-> <<Header(Len(ins))>> \o z.lines, exc |-> z.exc]

\* replay(cache.store) is called.
CallReplay(p) ==
    /\ pc[p] = "idle"
    /\ pc' = [pc EXCEPT ![p] = "lrange_in"]
    /\ frame' = [frame EXCEPT ![p] = [NoFrame EXCEPT !.op = "replay"]]
    /\ ret' = [ret EXCEPT ![p] = PyNone]
    /\ stdout' = [stdout EXCEPT ![p] = << >>]
    /\ UNCHANGED <<db, calls>>

\* inputs = cache._redis.lrange(inputs_key, 0, -1)
ReplayLrangeInputs(p) ==
    /\ pc[p] = "lrange_in"
    /\ LET r == RedisLrange(db, InputsKey).reply
       IN  IF r.t = "raise"
           THEN Abort(p, r)
           ELSE /\ frame' = [frame EXCEPT ![p].ins = r.v]
                /\ pc' = [pc EXCEPT ![p] = "lrange_out"]
                /\ UNCHANGED <<ret, stdout, calls>>
    /\ db' = RedisLrange(db, InputsKey).db

\* outputs = cache._redis.lrange(outputs_key, 0, -1), then the header and the
\* lines are printed.
ReplayLrangeOutputs(p) ==
    /\ pc[p] = "lrange_out"
    /\ LET r == RedisLrange(db, OutputsKey).reply
       IN  IF r.t = "raise"
           THEN Abort(p, r)
           ELSE LET o == ReplayOutput(frame[p].ins, r.v)
                IN  /\ stdout' = [stdout EXCEPT ![p] = o.lines]
                    /\ pc' = [pc EXCEPT ![p] = "idle"]
                    /\ ret' = [ret EXCEPT ![p] = o.exc]
                    /\ frame' = [frame EXCEPT ![p] = Done(frame[p])]
                    /\ UNCHANGED calls
    /\ db' = RedisLrange(db, OutputsKey).db

\* ------------------------------------------------------- specifications
\* The steps of one store call of caller p.
StoreStep(p) ==
    \/ StoreIncr(p)
    \/ StoreRpushInputs(p)
    \/ StoreSet(p)
    \/ StoreRpushOutputs(p)

\* Concurrent callers: store calls whose commands interleave, failing commands,
\* and constructions of further Cache instances on the same database.
Next ==
    \E p \in Procs :
        \/ \E data \in DataSmall : CallStore(p, data)
        \/ StoreStep(p)
        \/ Fail(p)
        \/ Construct(p)

Spec == Init /\ [][Next]_vars

\* One caller, one operation after another, any command of which may fail:
\* store, replay and the constructor, over the values of DataAll.
SeqNext ==
    \/ \E data \in DataAll : CallStore(1, data)
    \/ StoreStep(1)
    \/ CallReplay(1)
    \/ ReplayLrangeInputs(1)
    \/ ReplayLrangeOutputs(1)
    \/ Fail(1)
    \/ Construct(1)

SeqSpec == Init /\ [][SeqNext]_vars

\* One caller, one operation after another, the server reachable throughout:
\* store, the three readers, replay and the constructor, over the values of DataAll.
ReadNext ==
    \/ \E data \in DataAll : CallStore(1, data)
    \/ StoreStep(1)
    \/ \E op \in {"get", "get_str", "get_int"}, key \in ReadKeys, fn \in Fns :
           CallGet(1, op, key, fn)
    \/ DoGet(1)
    \/ CallReplay(1)
    \/ ReplayLrangeInputs(1)
    \/ ReplayLrangeOutputs(1)
    \/ Construct(1)

ReadSpec == Init /\ [][ReadNext]_vars

\* Concurrent callers whose store calls interleave and fail as in Next, all
\* storing 42, and constructions at any moment, those that happen while store
\* calls of other callers are in flight included.
WipeNext ==
    \E p \in Procs :
        \/ CallStore(p, PyInt(42))
        \/ StoreStep(p)
        \/ Fail(p)
        \/ Construct(p)
        \/ ConstructDuring(p)

WipeSpec == Init /\ [][WipeNext]_vars

\* ---------------------------------------------------------------- claims
Min(a, b) == IF a < b THEN a ELSE b
\* The store call calls[i] is in flight, about to send one of the commands of S.
InFlightAt(i, S) ==
    \E p \in Procs : pc[p] \in S /\ frame[p].op = "store" /\ frame[p].idx = i
FailedAt(i, S) == calls[i].st = "failed" /\ calls[i].at \in S
AllReturned == \A i \in 1..Len(calls) : calls[i].st = "returned"
\* The calls that have incremented the counter and not appended their input,
\* and those that have appended their input and not their output.
NoInputYet  == {i \in 1..Len(calls) : InFlightAt(i, {"rpush_in"}) \/ FailedAt(i, {"rpush_in"})}
NoOutputYet == {i \in 1..Len(calls) : InFlightAt(i, {"set", "rpush_out"})
                                        \/ FailedAt(i, {"set", "rpush_out"})}

\* C1: on a freshly constructed Cache, after N store calls that each ran to
\* completion one after another, the counter is N and the inputs log has N entries.
C1_CountAfterCalls ==
    (pc[1] = "idle" /\ AllReturned) => (Counter = Len(calls) /\ Len(Inputs) = Len(calls))
C1_Witness == pc[1] = "idle" /\ AllReturned /\ Len(calls) = 2 /\ Counter = 2

\* C2 as stated: in every reachable state, the states between the commands of one
\* store call included, the counter equals the length of the inputs log.
C2_Original == Counter = Len(Inputs)
\* C2 as amended: the counter is never below the length of the inputs log, and
\* exceeds it by the number of store calls that have incremented the counter and
\* not appended their input (in flight between the two commands, or failed there).
C2_CounterLeadsInputs ==
    /\ Counter >= Len(Inputs)
    /\ Counter = Len(Inputs) + Cardinality(NoInputYet)
C2_Witness ==
    /\ \E p \in Procs : pc[p] = "rpush_in"
    /\ \E i \in 1..Len(calls) : calls[i].st = "returned"
    /\ Counter = Len(Inputs) + 1

\* C3 as stated: in every reachable state the inputs log and the outputs log have
\* the same length.
C3_Original == Len(Inputs) = Len(Outputs)
\* C3 as amended: the inputs log is never shorter than the outputs log, and is
\* longer by the number of store calls that have appended their input and not
\* their output (in flight between the two appends, or failed there).
C3_InputsLeadOutputs ==
    /\ Len(Inputs) >= Len(Outputs)
    /\ Len(Inputs) = Len(Outputs) + Cardinality(NoOutputYet)
C3_Witness ==
    /\ \E i \in 1..Len(calls) : FailedAt(i, {"set"})
    /\ \E i \in 1..Len(calls) : calls[i].st = "returned"
    /\ Len(Inputs) = 2 /\ Len(Outputs) = 1

\* The entry a call appends to the inputs log, and the one it appends to the
\* outputs log on returning key k.
InputEntry(c)  == Utf8Encode(StrArgs(c.args))
OutputEntry(c) == Utf8Encode(c.key)
RECURSIVE EntriesOf(_, _, _)
\* The entries of the calls cs (calls[from], ...) that have appended one: the
\* inputs for log = "in", the outputs for log = "out".
EntriesOf(cs, from, log) ==
    IF cs = << >> THEN << >>
    ELSE LET c == Head(cs)
             has == IF log = "in"
                    THEN c.st = "returned" \/ from \in NoOutputYet
                    ELSE c.st = "returned"
             e == IF log = "in" THEN InputEntry(c) ELSE OutputEntry(c)
         IN  (IF has THEN <<e>> ELSE << >>) \o EntriesOf(Tail(cs), from + 1, log)

\* C4 as stated: after any sequence of store calls on one Cache, inputs[i] is the
\* serialized arguments of the i-th call and outputs[i] the serialized key the
\* i-th call returned.
C4_Original ==
    pc[1] = "idle" =>
        \A i \in 1..Len(calls) : calls[i].st = "returned" =>
            /\ i <= Len(Inputs) /\ Inputs[i] = InputEntry(calls[i])
            /\ i <= Len(Outputs) /\ Outputs[i] = OutputEntry(calls[i])
\* C4 as amended: for store calls made one after another, the inputs log holds,
\* in call order, the serialized arguments of the calls that reached their inputs
\* append, and the outputs log, in call order, the serialized keys of the calls
\* that returned; when every call returned, inputs[i] and outputs[i] belong to
\* the i-th call.  store(42) is logged as "(42,)".
C4_LogsInCallOrder ==
    /\ Inputs = EntriesOf(calls, 1, "in")
    /\ Outputs = EntriesOf(calls, 1, "out")
    /\ AllReturned =>
         \A i \in 1..Len(calls) : /\ Inputs[i] = InputEntry(calls[i])
                                  /\ Outputs[i] = OutputEntry(calls[i])
    /\ \A i \in 1..Len(calls) :
         (calls[i].st = "returned" /\ calls[i].args = <<PyInt(42)>>) =>
             \E j \in 1..Len(Inputs) : Inputs[j] = <<40, 52, 50, 44, 41>>
C4_Witness ==
    /\ AllReturned /\ Len(calls) = 2
    /\ calls[1].args # calls[2].args /\ calls[1].key # calls[2].key
    /\ Len(Inputs) = 2 /\ Len(Outputs) = 2

\* The single caller has finished a read of the method and conversion given.
\* get(key, fn=int) and get_int(key) are the same read, and so are
\* get(key, fn=lambda d: d.decode("utf-8")) and get_str(key).
ReadFn == CASE frame[1].op = "get_str" -> "decode"
            [] frame[1].op = "get_int" -> "int"
            [] OTHER -> frame[1].fn
ReadDone(fn) ==
    /\ pc[1] = "idle"
    /\ frame[1].op \in {"get", "get_str", "get_int"}
    /\ ReadFn = fn
ReadKey == frame[1].args[1].v
LastCall == calls[Len(calls)]
\* The read was of the key the latest store call returned: get(store(v)).
RoundTrip(fn) ==
    /\ ReadDone(fn)
    /\ calls # << >> /\ LastCall.st = "returned"
    /\ ReadKey = LastCall.key

\* C5 as stated: get(store(v)) with no conversion equals v for v a str, bytes,
\* int or float, and get_int(store(v)) equals int(v) for an int v.
C5_Original ==
    /\ RoundTrip("None") => PyEq(ret[1], LastCall.args[1])
    /\ (RoundTrip("int") /\ LastCall.args[1].t = "int") => PyEq(ret[1], LastCall.args[1])
\* C5 as amended: get(store(v)) with no conversion returns bytes, the encoding
\* Redis was sent: it equals v for a bytes v only, and is text's UTF-8 form, an
\* int's decimal digits, a float's repr otherwise.  get_str(store(s)) equals s
\* for a str s, get_int(store(n)) equals n for an int n, and get_int(store(x))
\* raises ValueError for a float x.
C5_RoundTripByType ==
    LET v == LastCall.args[1]
    IN  /\ RoundTrip("None") =>
              /\ ret[1].t = "bytes"
              /\ PyEq(ret[1], v) <=> v.t = "bytes"
              /\ v.t = "str" => Utf8Decode(ret[1].v) = v
              /\ v = PyStr(<<102, 233>>) => ret[1].v = <<102, 195, 169>>
              /\ v = PyInt(42) => ret[1].v = <<52, 50>>
              /\ v = PyFloat(420) => ret[1].v = <<52, 50, 46, 48>>
        /\ (RoundTrip("decode") /\ v.t = "str") => ret[1] = v
        /\ (RoundTrip("int") /\ v.t = "int") => ret[1] = v
        /\ (RoundTrip("int") /\ v.t = "float") => ret[1] = Raised("ValueError")
        /\ (RoundTrip("int") /\ v = PyBytes(<<49, 50, 51>>)) => ret[1] = PyInt(123)
C5_Witness ==
    /\ RoundTrip("decode")
    /\ LastCall.args[1] = PyStr(<<102, 233>>)
    /\ ret[1] = PyStr(<<102, 233>>)

\* The keys the store calls since the construction have written.
WrittenKeys == {calls[i].key : i \in {j \in 1..Len(calls) : calls[j].st = "returned"}}

\* C6 as stated: for every key that store never produced, get(key) returns None
\* and does not fail.  No store call produces a key outside Uuids.
C6_Original == (ReadDone("None") /\ ReadKey \notin Uuids) => ret[1] = PyNone
\* C6 as amended: get(key) returns None for every key that no store call since
\* the construction has written, except the three names the decorators write
\* under.  Once store has been called, get("Cache.store") returns the counter's
\* digits, and get of "Cache.store:inputs" or "Cache.store:outputs" raises
\* ResponseError (the key holds a list).
C6_AbsentUnlessWritten ==
    ReadDone("None") =>
        /\ ReadKey \notin (WrittenKeys \cup {QualName, InputsName, OutputsName})
               => ret[1] = PyNone
        /\ (ReadKey = QualName /\ calls = << >>) => ret[1] = PyNone
        /\ (ReadKey = QualName /\ Len(calls) = 1) => ret[1] = PyBytes(<<49>>)
        /\ (ReadKey = QualName /\ Len(calls) = 2) => ret[1] = PyBytes(<<50>>)
        /\ ReadKey \in {InputsName, OutputsName} =>
               ret[1] = IF calls = << >> THEN PyNone ELSE Raised("ResponseError")
C6_Witness ==
    /\ ReadDone("None") /\ ReadKey = Uuid(2)
    /\ WrittenKeys = {Uuid(1)}
    /\ ret[1] = PyNone

\* The keys of the database that are not the decorators' names.
ValueKeys(d) == (DOMAIN d) \ {CounterKey, InputsKey, OutputsKey}

C8_FailedSetKeepsInput ==
    [][ (pc[1] = "set" /\ Fail(1)) =>
          /\ ret'[1] = Raised("ConnectionError")
          /\ pc'[1] = "idle"
          /\ Counter' = Counter
          /\ Inputs' = Inputs /\ Outputs' = Outputs
          /\ Inputs[Len(Inputs)] = InputEntry(calls[frame[1].idx])
          /\ Len(Inputs') = frame[1].snap[1] + 1
          /\ Len(Outputs') = frame[1].snap[2]
          /\ ValueKeys(db') = ValueKeys(db) ]_vars
C8_Witness ==
    /\ pc[1] = "idle" /\ ret[1] = Raised("ConnectionError")
    /\ Len(calls) = 2 /\ calls[1].st = "returned" /\ FailedAt(2, {"set"})
    /\ Len(Inputs) = 2 /\ Len(Outputs) = 1

\* The text of a log entry.
TextOf(b) == Utf8Decode(b).v

\* C9: replay prints a header whose count is the length of the inputs log, then
\* min(len(inputs), len(outputs)) lines, line i pairing inputs[i] with
\* outputs[i]; logs of unequal length are cut to the shorter without an error,
\* and with no call the header says 0 and no line follows.
C9_ReplayOutput ==
    (pc[1] = "idle" /\ frame[1].op = "replay" /\ ret[1].t # "raise") =>
        /\ ret[1] = PyNone
        /\ Len(stdout[1]) = 1 + Min(Len(Inputs), Len(Outputs))
        /\ stdout[1][1] = QualName \o <<32, 119, 97, 115, 32, 99, 97, 108, 108, 101, 100, 32>>
                            \o <<48 + Len(Inputs)>> \o <<32, 116, 105, 109, 101, 115, 58>>
        /\ \A i \in 1..Min(Len(Inputs), Len(Outputs)) :
               stdout[1][i + 1] = QualName \o <<40, 42>> \o TextOf(Inputs[i])
                                    \o <<41, 32, 45, 62, 32>> \o TextOf(Outputs[i])
        /\ Inputs = << >> =>
               stdout[1] = << <<67, 97, 99, 104, 101, 46, 115, 116, 111, 114, 101, 32,
                                119, 97, 115, 32, 99, 97, 108, 108, 101, 100, 32, 48, 32,
                                116, 105, 109, 101, 115, 58>> >>
C9_Witness ==
    /\ pc[1] = "idle" /\ frame[1].op = "replay" /\ ret[1] = PyNone
    /\ Len(Inputs) = 2 /\ Len(Outputs) = 1
    /\ Len(stdout[1]) = 2

\* C10: constructing a further Cache on the same database wipes what the calls
\* before it left: right after the construction the counter is 0 (its key does
\* not exist) and both logs are empty, whatever store calls came before.
C10_ConstructWipes ==
    [][ (\E p \in Procs : Construct(p)) =>
          /\ Counter' = 0 /\ CounterKey \notin DOMAIN db'
          /\ Inputs' = << >> /\ InputsKey \notin DOMAIN db'
          /\ Outputs' = << >> /\ OutputsKey \notin DOMAIN db'
          /\ RedisLrange(db', InputsKey).reply.v = << >>
          /\ RedisLrange(db', OutputsKey).reply.v = << >> ]_vars
C10_Witness ==
    /\ frame[1].op = "init" /\ calls = << >>
    /\ frame[2].op = "store" /\ ret[2].t = "str"
    /\ Counter = 0 /\ Inputs = << >> /\ Outputs = << >>

\* C11: get_int(key) returns the integer the bytes under key spell when they are
\* an integer literal (b"123" gives 123), raises ValueError when they are not
\* (the bytes of "fé", of "42.0"), and returns None when key does not exist; in
\* each of the three outcomes the database is as it was.
C11_GetIntOutcomes ==
    [][ (pc[1] = "get" /\ frame[1].op = "get_int" /\ DoGet(1)) =>
          LET k == Utf8Encode(frame[1].args[1].v)
          IN  /\ db' = db
              /\ k \notin DOMAIN db => (ret'[1] = PyNone /\ pc'[1] = "idle")
              /\ (k \in DOMAIN db /\ db[k].type = "string") =>
                    LET b == db[k].val
                    IN  /\ b = <<49, 50, 51>> => ret'[1] = PyInt(123)
                        /\ b = <<52, 50>> => ret'[1] = PyInt(42)
                        /\ b = <<49>> => ret'[1] = PyInt(1)
                        /\ b = <<102, 195, 169>> => ret'[1] = Raised("ValueError")
                        /\ b = <<52, 50, 46, 48>> => ret'[1] = Raised("ValueError")
                        /\ (\A i \in 1..Len(b) : IsDigit(b[i]))
                               => ret'[1] = PyInt(DigitsValue(b, 0))
                        /\ (\E i \in 1..Len(b) : ~IsDigit(b[i]))
                               => ret'[1] = Raised("ValueError") ]_vars
C11_Witness ==
    /\ ReadDone("int") /\ frame[1].op = "get_int"
    /\ Utf8Encode(ReadKey) \in DOMAIN db
    /\ db[Utf8Encode(ReadKey)].val = <<49, 50, 51>>
    /\ ret[1] = PyInt(123)

\* The values under the keys that are not the decorators' names are as they were.
ValuesKept == ValueKeys(db') = ValueKeys(db) /\ \A k \in ValueKeys(db) : db'[k] = db[k]
\* The commands of one store call, in the order the call sends them, and the
\* moves of a caller: to the next command, or out of the call on an exception.
StoreOrder == <<"incr", "rpush_in", "set", "rpush_out">>
StoreMoves ==
    {<<"idle", "incr">>, <<"rpush_out", "idle">>}
        \cup {<<StoreOrder[i], StoreOrder[i + 1]>> : i \in 1..3}
        \cup {<<StoreOrder[i], "idle">> : i \in 1..4}

\* C12: every store call sends its commands in one order: the counter's INCR,
\* the RPUSH to the inputs log, the SET of the value under the fresh key, the
\* RPUSH to the outputs log.  A caller moves from one command to the next only
\* (or leaves the call on an exception), and each move has the effect of its
\* command and of no other.
C12_StepOrder ==
    [][ \A p \in Procs :
          pc'[p] # pc[p] =>
            /\ <<pc[p], pc'[p]>> \in StoreMoves
            /\ (pc[p] = "idle" \/ ret'[p].t = "raise") => db' = db
            /\ (pc[p] = "incr" /\ pc'[p] = "rpush_in") =>
                  /\ Counter' = Counter + 1
                  /\ Inputs' = Inputs /\ Outputs' = Outputs /\ ValuesKept
            /\ (pc[p] = "rpush_in" /\ pc'[p] = "set") =>
                  /\ Inputs' = Append(Inputs, Utf8Encode(StrArgs(frame[p].args)))
                  /\ Counter' = Counter /\ Outputs' = Outputs /\ ValuesKept
            /\ (pc[p] = "set" /\ pc'[p] = "rpush_out") =>
                  /\ frame'[p].key \in Uuids
                  /\ db'[Utf8Encode(frame'[p].key)].val = RedisEncode(frame[p].args[1])
                  /\ Counter' = Counter /\ Inputs' = Inputs /\ Outputs' = Outputs
            /\ (pc[p] = "rpush_out" /\ ret'[p].t # "raise") =>
                  /\ ret'[p] = PyStr(frame[p].key)
                  /\ Outputs' = Append(Outputs, Utf8Encode(frame[p].key))
                  /\ Counter' = Counter /\ Inputs' = Inputs /\ ValuesKept ]_vars
C12_Witness ==
    /\ pc[1] = "rpush_out" /\ pc[2] = "set"
    /\ Counter = 2 /\ Len(Inputs) = 2 /\ Outputs = << >>
    /\ ValueKeys(db) = {Utf8Encode(frame[1].key)}

\* s is a prefix of t.
IsPrefix(s, t) == Len(s) <= Len(t) /\ SubSeq(t, 1, Len(s)) = s
\* The step is the flush of a Cache construction.
Constructs == \E p \in Procs : Construct(p) \/ ConstructDuring(p)

\* C13: between two Cache constructions no step lowers the store counter or
\* shortens a log, and both logs are append-only: after every step that is not
\* a construction, each log begins with the log as it was before the step.
C13_AppendOnly ==
    [][ ~Constructs =>
          /\ Counter' >= Counter
          /\ Len(Inputs') >= Len(Inputs) /\ Len(Outputs') >= Len(Outputs)
          /\ IsPrefix(Inputs, Inputs') /\ IsPrefix(Outputs, Outputs')
          /\ Counter' - Counter + Len(Inputs') - Len(Inputs)
                 + Len(Outputs') - Len(Outputs) <= 1 ]_vars
C13_Witness ==
    /\ Counter = 2 /\ Len(Inputs) = 2 /\ Len(Outputs) = 2
    /\ Outputs[1] # Outputs[2]
    /\ \A i \in 1..Len(calls) : calls[i].wiped = ""

\* No caller is inside an operation, and every store call since the construction
\* has returned.
AllDone == (\A p \in Procs : pc[p] = "idle") /\ AllReturned
\* The calls that returned key k.
CallsWithKey(k) == {i \in 1..Len(calls) : calls[i].key = k}

Count(log, e) == Cardinality({i \in 1..Len(log) : log[i] = e})
\* log holds one entry E(c) for each call c, in some order.
OnePerCall(log, E(_)) ==
    /\ Len(log) = Len(calls)
    /\ \A i \in 1..Len(calls) :
           Count(log, E(calls[i])) = Cardinality({j \in 1..Len(calls) : E(calls[j]) = E(calls[i])})
\* Some call has the arguments entry inp and returned the key entry out.
SameCall(inp, out) ==
    \E j \in 1..Len(calls) : inp = InputEntry(calls[j]) /\ out = OutputEntry(calls[j])
\* Nothing was appended to either log by another call since the store call of
\* caller p started, and the logs were of one length then.
AloneSinceStart(p) ==
    /\ frame[p].snap[1] = frame[p].snap[2]
    /\ Len(Inputs) = frame[p].snap[1] + 1
    /\ Len(Outputs) = frame[p].snap[2]

\* C15 as stated: when the store calls of concurrent callers interleave,
\* outputs[i] is the key returned by the call whose arguments are inputs[i],
\* and every line replay prints pairs an input with the output of that call.
C15_Original ==
    AllDone =>
        /\ \A i \in 1..Len(Outputs) : SameCall(Inputs[i], Outputs[i])
        /\ \A i \in 1..Len(Outputs) :
               \E j \in 1..Len(calls) :
                   ReplayOutput(Inputs, Outputs).lines[i + 1]
                       = CallLine(StrArgs(calls[j].args), calls[j].key)
\* C15 as amended: each store call appends its arguments at the tail of the
\* inputs log and, on returning, its key at the tail of the outputs log, so once
\* the calls of concurrent callers have all returned each log holds one entry
\* per call, the inputs in the order of the input appends and the outputs in the
\* order of the output appends.  The two orders can differ: outputs[i] belongs
\* to the call of inputs[i] for a call during which no other call appended to a
\* log (the logs being of one length when it started), and replay pairs by
\* index whatever the logs hold.
C15_LogsInAppendOrder ==
    /\ [](AllDone => OnePerCall(Inputs, InputEntry) /\ OnePerCall(Outputs, OutputEntry))
    /\ [](AllDone => \A i \in 1..Len(Outputs) :
             ReplayOutput(Inputs, Outputs).lines[i + 1]
                 = CallLine(TextOf(Inputs[i]), TextOf(Outputs[i])))
    /\ [][ \A p \in Procs :
              /\ (pc[p] = "rpush_in" /\ pc'[p] = "set") =>
                    Inputs' = Append(Inputs, InputEntry(calls[frame[p].idx]))
              /\ (pc[p] = "rpush_out" /\ ret'[p].t = "str") =>
                    /\ Outputs' = Append(Outputs, OutputEntry(calls'[frame[p].idx]))
                    /\ AloneSinceStart(p) =>
                          /\ Len(Inputs') = Len(Outputs')
                          /\ Inputs'[Len(Outputs')] = InputEntry(calls[frame[p].idx])
                          /\ SameCall(Inputs[Len(Outputs)], Outputs[Len(Outputs)])' ]_vars
C15_Witness ==
    /\ AllDone /\ Len(calls) = 2
    /\ calls[1].args # calls[2].args /\ calls[1].key # calls[2].key
    /\ Inputs = <<InputEntry(calls[1]), InputEntry(calls[2])>>
    /\ Outputs = <<OutputEntry(calls[2]), OutputEntry(calls[1])>>
    /\ ~SameCall(Inputs[1], Outputs[1])

\* The store calls in flight or failed.
Unfinished == {i \in 1..Len(calls) : calls[i].st \in {"running", "failed"}}
\* The calls that had sent their INCR when a construction flushed the database,
\* by the command they were about to send.
Straddlers(S) == {i \in 1..Len(calls) : calls[i].wiped \in S}

\* C16 as stated: in every reachable state between two constructions, mid-call
\* states, states after failed calls and states of interleaved calls included,
\* counter >= len(inputs) >= len(outputs), and counter - len(outputs) is at
\* most the number of store calls in flight or failed.
C16_Original ==
    /\ Counter >= Len(Inputs)
    /\ Len(Inputs) >= Len(Outputs)
    /\ Counter - Len(Outputs) <= Cardinality(Unfinished)
\* C16 as amended: the three inequalities hold in every state in which no store
\* call has gone on across the latest construction.  A call that had
\* incremented the counter when the database was flushed appends its input
\* without being counted, and a call that had appended its input appends its
\* output without an input: len(inputs) exceeds the counter by at most the
\* number of the former, len(outputs) exceeds len(inputs) by at most the number
\* of the latter.
C16_CounterInputsOutputs ==
    /\ Straddlers({"rpush_in", "set", "rpush_out"}) = {} =>
          /\ Counter >= Len(Inputs)
          /\ Len(Inputs) >= Len(Outputs)
          /\ Counter - Len(Outputs) <= Cardinality(Unfinished)
    /\ Len(Inputs) <= Counter + Cardinality(Straddlers({"rpush_in"}))
    /\ Len(Outputs) <= Len(Inputs) + Cardinality(Straddlers({"set", "rpush_out"}))
C16_Witness ==
    /\ Straddlers({"rpush_in", "set", "rpush_out"}) = {}
    /\ \E i \in 1..Len(calls) : FailedAt(i, {"rpush_in"})
    /\ \E p \in Procs : pc[p] = "rpush_out"
    /\ Counter = 2 /\ Len(Inputs) = 1 /\ Len(Outputs) = 0
    /\ Cardinality(Unfinished) = 2

\* C17: get, get_str, get_int and replay write nothing: every step of one of
\* them, from the call to its return of a value or of None or to the exception
\* it raises, leaves every stored value, the store counter and both logs as
\* they were.
C17_ReadersWriteNothing ==
    [][ (pc[1] \in {"get", "lrange_in", "lrange_out"} \/ pc'[1] \in {"get", "lrange_in"}) =>
          /\ db' = db
          /\ Counter' = Counter /\ Inputs' = Inputs /\ Outputs' = Outputs
          /\ ValuesKept ]_vars
C17_Witness ==
    /\ ReadDone("None") /\ ReadKey \in Uuids
    /\ Utf8Encode(ReadKey) \in DOMAIN db
    /\ ret[1] = PyBytes(db[Utf8Encode(ReadKey)].val)
    /\ Counter = 1 /\ Len(Inputs) = 1 /\ Len(Outputs) = 1

\* C18: get(key, fn) returns None exactly when key does not exist, and fn is
\* not applied then; for a key holding a string it returns fn(bytes) when fn is
\* given and the bytes otherwise, and what fn raises reaches the caller.
C18_GetConverts ==
    [][ (pc[1] = "get" /\ frame[1].op = "get" /\ DoGet(1)) =>
          LET k  == Utf8Encode(frame[1].args[1].v)
              fn == frame[1].fn
          IN  /\ k \notin DOMAIN db => (ret'[1] = PyNone /\ pc'[1] = "idle")
              /\ ret'[1] = PyNone => k \notin DOMAIN db
              /\ (k \in DOMAIN db /\ db[k].type = "string") =>
                    LET b == db[k].val
                    IN  /\ fn = "None" => ret'[1] = PyBytes(b)
                        /\ fn = "decode" => ret'[1] = Utf8Decode(b)
                        /\ fn = "int" => ret'[1] = IntOfBytes(b)
                        /\ (fn = "decode" /\ b = <<102, 195, 169>>) => ret'[1] = PyStr(<<102, 233>>)
                        /\ (fn = "int" /\ b = <<102, 195, 169>>) => ret'[1] = Raised("ValueError")
                        /\ (fn = "int" /\ b = <<49, 50, 51>>) => ret'[1] = PyInt(123) ]_vars
C18_Witness ==
    /\ ReadDone("int") /\ frame[1].op = "get"
    /\ Utf8Encode(ReadKey) \in DOMAIN db
    /\ db[Utf8Encode(ReadKey)].val = <<102, 195, 169>>
    /\ ret[1] = Raised("ValueError")

\* C19: a Cache construction removes every stored value with the counter and
\* the logs: right after it get(key) returns None for every key a store call
\* can have returned, and a key that get answers None for stays so until the
\* SET of a store call writes that key, which then holds that call's value.
C19_ConstructRemovesValues ==
    [][ /\ Constructs =>
              /\ ValueKeys(db') = {} /\ DOMAIN db' = {}
              /\ \A k \in Uuids : CacheGet(db', k, "None") = PyNone
        /\ \A k \in Uuids :
              (CacheGet(db, k, "None") = PyNone /\ CacheGet(db', k, "None") # PyNone) =>
                  \E p \in Procs :
                      /\ pc[p] = "set" /\ pc'[p] = "rpush_out" /\ frame'[p].key = k
                      /\ CacheGet(db', k, "None") = PyBytes(RedisEncode(frame[p].args[1])) ]_vars
C19_Witness ==
    /\ frame[1].op = "init"
    /\ pc[2] = "idle" /\ frame[2].op = "store" /\ ret[2] = PyStr(Uuid(1))
    /\ Utf8Encode(Uuid(1)) \notin DOMAIN db
    /\ CacheGet(db, Uuid(1), "None") = PyNone

====
